---- MODULE Spec2Model ----
(***************************************************************************)
(* Billing lifecycle of dev365-developers/agency-backend: the billing      *)
(* sub-document of a Website, the admin operations that write it           *)
(* (controllers/admin.website.controller.ts), the date arithmetic          *)
(* (utils/billingUtils.ts) and the reconciliation job                      *)
(* (jobs/billingCron.ts).                                                  *)
(*                                                                         *)
(* Time is counted in whole days; day 0 is 1 January of EpochYear.  A      *)
(* Date field that is not set holds NoDate.                                *)
(***************************************************************************)
EXTENDS Integers, Sequences, FiniteSets, TLC

\* ------------------------------------------------------------- bounds
EpochYear == 2024
StartDay == 25
MaxPayments == 2
MaxDay == 425

\* ------------------------------------------------------ the domains
Websites == {"w1", "w2"}
Runners == {"cron", "manual"}

BillingStatus == {"PENDING", "ACTIVE", "OVERDUE", "SUSPENDED"}
WebsiteStatus == {"CREATED", "IN_PROGRESS", "REVIEW", "COMPLETED", "DEPLOYED", "CANCELLED"}
BillingCycles == {"monthly", "quarterly", "yearly"}

NoDate == -1
NoPrice == -1
NoPlan == "undefined"
NoString == "undefined"

\* An optional request field: {} when the body leaves it out, {v} otherwise.
None == {}
Some(v) == {v}
The(opt) == CHOOSE v \in opt : TRUE

\* ------------------------------------------------ the calendar (Date)
IsLeap(y) == (y % 4 = 0 /\ y % 100 # 0) \/ y % 400 = 0

DaysInYear(y) == IF IsLeap(y) THEN 366 ELSE 365

\* m is the month as Date.getMonth() gives it: 0 is January.
DaysInMonth(y, m) ==
    IF m = 1 THEN (IF IsLeap(y) THEN 29 ELSE 28)
    ELSE IF m \in {3, 5, 8, 10} THEN 30 ELSE 31

RECURSIVE DaysBeforeYear(_)
DaysBeforeYear(y) ==
    IF y <= EpochYear THEN 0 ELSE DaysBeforeYear(y - 1) + DaysInYear(y - 1)

RECURSIVE DaysBeforeMonth(_, _)
DaysBeforeMonth(y, m) ==
    IF m = 0 THEN 0 ELSE DaysBeforeMonth(y, m - 1) + DaysInMonth(y, m - 1)

RECURSIVE YearFrom(_, _)
YearFrom(t, y) == IF t < DaysBeforeYear(y + 1) THEN y ELSE YearFrom(t, y + 1)

getFullYear(t) == YearFrom(t, EpochYear)

RECURSIVE MonthFrom(_, _, _)
MonthFrom(rest, y, m) ==
    IF rest < DaysInMonth(y, m) THEN m ELSE MonthFrom(rest - DaysInMonth(y, m), y, m + 1)

getMonth(t) == MonthFrom(t - DaysBeforeYear(getFullYear(t)), getFullYear(t), 0)

getDate(t) ==
    t - DaysBeforeYear(getFullYear(t)) - DaysBeforeMonth(getFullYear(t), getMonth(t)) + 1

\* new Date(y, m, d) with the month carried into the year and the day of the
\* month counted on from the first of that month, past its end if need be.
MakeDate(y, m, d) ==
    DaysBeforeYear(y + (m \div 12)) + DaysBeforeMonth(y + (m \div 12), m % 12) + (d - 1)

setDate(t, d) == MakeDate(getFullYear(t), getMonth(t), d)

setMonth(t, m) == MakeDate(getFullYear(t), m, getDate(t))

\* ------------------------------------------------ utils/billingUtils.ts
GraceDays == 5

addDays(date, days) == setDate(date, getDate(date) + days)

\* addMonths that stops at the last day of the target month.
addMonthsClamped(date, months) ==
    LET y == getFullYear(date) + ((getMonth(date) + months) \div 12)
        m == (getMonth(date) + months) % 12
    IN IF getDate(date) <= DaysInMonth(y, m)
       THEN MakeDate(y, m, getDate(date))
       ELSE MakeDate(y, m, DaysInMonth(y, m))

addMonths(date, months) == setMonth(date, getMonth(date) + months)

\* calculateNextDueDate whose default case hands the start date back.
NextDueDateWithoutDefault(startDate, cycle) ==
    CASE cycle = "monthly" -> addMonths(startDate, 1)
      [] cycle = "quarterly" -> addMonths(startDate, 3)
      [] cycle = "yearly" -> addMonths(startDate, 12)
      [] OTHER -> startDate

calculateNextDueDate(startDate, cycle) ==
    CASE cycle = "monthly" -> addMonths(startDate, 1)
      [] cycle = "quarterly" -> addMonths(startDate, 3)
      [] cycle = "yearly" -> addMonths(startDate, 12)
      [] OTHER -> addMonths(startDate, 1)

\* initializeBilling(plan, price, cycle) called at time now: the seven fields
\* of the Partial<IBilling> it returns.
initializeBilling(plan, price, cycle, now) ==
    [status |-> "PENDING",
     plan |-> plan,
     price |-> price,
     billingCycle |-> cycle,
     activatedAt |-> now,
     dueAt |-> addDays(now, GraceDays),
     graceEndsAt |-> addDays(now, GraceDays)]

\* 1000 * 60 * 60 * 24: the milliseconds of a day.
MsPerDay == 1000 * 60 * 60 * 24

\* Math.ceil(n / d) for an integer n and a positive integer d.
MathCeil(n, d) == -((-n) \div d)

\* getDaysRemaining that rounds down.
getDaysRemainingFloored(dueDate, now) == (dueDate - now) \div MsPerDay

\* getDaysRemaining(dueDate) called at time now, both in milliseconds.
getDaysRemaining(dueDate, now) == MathCeil(dueDate - now, MsPerDay)

\* ------------------------------------------------ models/Website.ts
\* The billing sub-document a new Website gets from the schema defaults.
DefaultBilling ==
    [status |-> "PENDING",
     plan |-> NoPlan,
     price |-> NoPrice,
     billingCycle |-> "monthly",
     activatedAt |-> NoDate,
     dueAt |-> NoDate,
     lastPaymentAt |-> NoDate,
     graceEndsAt |-> NoDate,
     suspendedAt |-> NoDate,
     paymentHistory |-> <<>>]

\* No document with this id in the collection.
Absent == [exists |-> FALSE, status |-> "CREATED", billing |-> DefaultBilling]

\* ------------------------------------------------ middleware/rateLimiter.ts
\* The authenticated users of the model, and req.auth?.userId: one of them, or
\* NoString on a request that carries no authentication.
LimiterUsers == {"u1", "u2"}

UserInputs == LimiterUsers \cup {NoString}

\* req.path on the one route the limiter is mounted on, POST / of the support
\* router.
Paths == {"/"}

\* `${userId}:${req.path}`
KeyOf(userId, path) ==
    CASE userId = "u1" /\ path = "/" -> "u1:/"
      [] userId = "u2" /\ path = "/" -> "u2:/"

Keys == {KeyOf(userId, path) : userId \in LimiterUsers, path \in Paths}

\* store[key] of a key the store does not hold.  Beside count and resetTime an
\* entry carries passed, which the code does not keep: the requests handed to
\* next() since the entry was written.
NoEntry == [count |-> 0, resetTime |-> NoDate, passed |-> 0]

\* const store: RateLimitStore = {}
EmptyStore == [key \in Keys |-> NoEntry]

VARIABLES clock, db, response, pc, run, call, store

vars == <<clock, db, response, pc, run, call, store>>

\* What the last HTTP handler answered: the handler, the status code and the
\* e-mail it sent.
Respond(op, code, email) == [op |-> op, code |-> code, email |-> email]

\* call holds the last direct call of a function of utils/billingUtils.ts with
\* its arguments and what it returned; NoCall when there has been none.
NoCall == [fn |-> "none", date |-> NoDate, arg |-> NoString, result |-> NoDate]

\* The state of a reconciliation run that is not in progress.
IdleRun ==
    [now |-> NoDate,
     websites |-> <<>>,
     i |-> 1,
     pendingToSuspended |-> 0,
     activeToOverdue |-> 0,
     errors |-> 0,
     mail |-> <<>>,
     failed |-> {},
     pre |-> [w \in Websites |-> Absent],
     follows |-> "none"]

Init ==
    /\ clock = StartDay
    /\ db = [w \in Websites |-> Absent]
    /\ response = Respond("none", 0, "none")
    /\ pc = [r \in Runners |-> "idle"]
    /\ run = [r \in Runners |-> IdleRun]
    /\ call = NoCall
    /\ store = EmptyStore

\* No reconciliation run is in progress.
Quiet == \A r \in Runners : pc[r] = "idle"

\* ----------------------------------------------------------- the clock
\* The instants at which the model reads the clock after StartDay: the end of
\* the grace period of a deployment on StartDay and the day after it, and the
\* due date of a payment made on that day and the day after it.
Instants ==
    LET graceEnd == addDays(StartDay, GraceDays)
        due == calculateNextDueDate(graceEnd + 1, "monthly")
    IN {graceEnd, graceEnd + 1, due, due + 1}

Tick ==
    /\ \E t \in Instants : t > clock /\ clock' = t
    /\ UNCHANGED <<db, response, pc, run, call, store>>

\* -------------------------- controllers/admin.request.controller.ts
ApproveRequest(w) ==
    /\ \/ /\ db[w].exists
          /\ response' = Respond("approveRequest", 400, "none")
          /\ UNCHANGED db
       \/ /\ ~db[w].exists
          /\ db' = [db EXCEPT ![w] =
                      [exists |-> TRUE, status |-> "CREATED", billing |-> DefaultBilling]]
          /\ response' = Respond("approveRequest", 201, "none")
    /\ UNCHANGED <<clock, pc, run, call, store>>

\* -------------------------- controllers/admin.website.controller.ts
\* String.prototype.toLowerCase().trim() on the plan names the model feeds in.
toLowerCaseTrim(s) ==
    CASE s = " Pro " -> "pro"
      [] s = "BASIC" -> "basic"
      [] OTHER -> s

\* The billing fields both deployment paths copy out of initializeBilling's result.
ApplyInitialBilling(b, init) ==
    [b EXCEPT !.status = init.status,
              !.plan = init.plan,
              !.price = init.price,
              !.billingCycle = init.billingCycle,
              !.activatedAt = init.activatedAt,
              !.dueAt = init.dueAt,
              !.graceEndsAt = init.graceEndsAt]

StatusInputs == {"COMPLETED", "DEPLOYED", "BOGUS"}

\* updateWebsiteStatus that initialises billing on every update to DEPLOYED.
UpdateWebsiteStatusAlwaysInit(w, status) ==
    /\ \/ /\ status \notin WebsiteStatus
          /\ response' = Respond("updateWebsiteStatus", 400, "none")
          /\ UNCHANGED db
       \/ /\ status \in WebsiteStatus
          /\ ~db[w].exists
          /\ response' = Respond("updateWebsiteStatus", 404, "none")
          /\ UNCHANGED db
       \/ /\ status \in WebsiteStatus
          /\ db[w].exists
          /\ LET entering == status = "DEPLOYED"
                 billing == IF entering
                            THEN ApplyInitialBilling(db[w].billing,
                                   initializeBilling(NoPlan, NoPrice, "monthly", clock))
                            ELSE db[w].billing
             IN \/ /\ db' = [db EXCEPT ![w].status = status, ![w].billing = billing]
                   /\ response' = Respond("updateWebsiteStatus", 200, IF entering THEN "activated" ELSE "none")
                \/ /\ response' = Respond("updateWebsiteStatus", 500, "none")
                   /\ UNCHANGED db
    /\ UNCHANGED <<clock, pc, run, call, store>>

UpdateWebsiteStatus(w, status) ==
    /\ \/ /\ status \notin WebsiteStatus
          /\ response' = Respond("updateWebsiteStatus", 400, "none")
          /\ UNCHANGED db
       \/ /\ status \in WebsiteStatus
          /\ ~db[w].exists
          /\ response' = Respond("updateWebsiteStatus", 404, "none")
          /\ UNCHANGED db
       \/ /\ status \in WebsiteStatus
          /\ db[w].exists
          /\ LET previousStatus == db[w].status
                 entering == status = "DEPLOYED" /\ previousStatus # "DEPLOYED"
                 billing == IF entering
                            THEN ApplyInitialBilling(db[w].billing,
                                   initializeBilling(NoPlan, NoPrice, "monthly", clock))
                            ELSE db[w].billing
             IN \/ /\ db' = [db EXCEPT ![w].status = status, ![w].billing = billing]
                   /\ response' = Respond("updateWebsiteStatus", 200, IF entering THEN "activated" ELSE "none")
                \/ \* website.save() rejects
                   /\ response' = Respond("updateWebsiteStatus", 500, "none")
                   /\ UNCHANGED db
    /\ UNCHANGED <<clock, pc, run, call, store>>

\* The PATCH /websites/:id bodies the model sends: status with the billing
\* options billingPlan, billingPrice and billingCycle, or with none of them.
WebsiteBodies ==
    {[status |-> Some("DEPLOYED"), billingPlan |-> Some(" Pro "),
      billingPrice |-> Some(20), billingCycle |-> Some("quarterly")],
     [status |-> Some("DEPLOYED"), billingPlan |-> None,
      billingPrice |-> Some(-5), billingCycle |-> None],
     [status |-> Some("DEPLOYED"), billingPlan |-> None,
      billingPrice |-> None, billingCycle |-> None],
     [status |-> Some("COMPLETED"), billingPlan |-> None,
      billingPrice |-> None, billingCycle |-> None]}

UpdateWebsite(w, updateData) ==
    /\ \/ /\ ~db[w].exists
          /\ response' = Respond("updateWebsite", 404, "none")
          /\ UNCHANGED db
       \/ /\ db[w].exists
          /\ LET currentWebsite == db[w]
                 status == The(updateData.status)
                 entering == status = "DEPLOYED" /\ currentWebsite.status # "DEPLOYED"
                 billingPlan == IF updateData.billingPlan # None
                                THEN toLowerCaseTrim(The(updateData.billingPlan))
                                ELSE NoPlan
                 billingPrice == IF updateData.billingPrice # None
                                 THEN The(updateData.billingPrice) ELSE NoPrice
                 billingCycle == IF updateData.billingCycle # None
                                 THEN The(updateData.billingCycle) ELSE "monthly"
                 billingData == initializeBilling(billingPlan, billingPrice, billingCycle, clock)
                 \* $set drops the keys whose value is undefined
                 set == [billingData EXCEPT
                           !.plan = IF billingPlan = NoPlan
                                    THEN currentWebsite.billing.plan ELSE billingPlan,
                           !.price = IF updateData.billingPrice = None
                                     THEN currentWebsite.billing.price ELSE billingPrice]
                 billing == IF entering
                            THEN ApplyInitialBilling(currentWebsite.billing, set)
                            ELSE currentWebsite.billing
                 valid == /\ status \in WebsiteStatus
                          /\ entering => /\ billingCycle \in BillingCycles
                                          /\ updateData.billingPrice # None => billingPrice >= 0
             IN \/ /\ valid
                   /\ db' = [db EXCEPT ![w].status = status, ![w].billing = billing]
                   /\ response' = Respond("updateWebsite", 200, IF entering THEN "activated" ELSE "none")
                \/ \* runValidators rejects the update: ValidationError
                   /\ ~valid
                   /\ response' = Respond("updateWebsite", 400, "none")
                   /\ UNCHANGED db
                \/ \* findByIdAndUpdate rejects
                   /\ response' = Respond("updateWebsite", 500, "none")
                   /\ UNCHANGED db
    /\ UNCHANGED <<clock, pc, run, call, store>>

\* The PATCH /websites/:id/billing bodies the model sends.
BillingBodies ==
    {[plan |-> Some(" Pro "), price |-> Some(20), billingCycle |-> Some("quarterly"),
      status |-> None],
     [plan |-> None, price |-> Some(-5), billingCycle |-> None, status |-> None],
     [plan |-> None, price |-> None, billingCycle |-> Some("weekly"), status |-> None],
     [plan |-> None, price |-> None, billingCycle |-> None, status |-> Some("SUSPENDED")],
     [plan |-> None, price |-> None, billingCycle |-> None, status |-> Some("ACTIVE")],
     [plan |-> None, price |-> None, billingCycle |-> None, status |-> Some("BOGUS")]}

\* updateBilling saved without the min validator of price.
UpdateBillingWithoutMin(w, body) ==
    /\ \/ /\ ~db[w].exists
          /\ response' = Respond("updateBilling", 404, "none")
          /\ UNCHANGED db
       \/ /\ db[w].exists
          /\ LET b0 == db[w].billing
                 b1 == IF body.plan # None
                       THEN [b0 EXCEPT !.plan = toLowerCaseTrim(The(body.plan))] ELSE b0
                 b2 == IF body.price # None THEN [b1 EXCEPT !.price = The(body.price)] ELSE b1
                 b3 == IF body.billingCycle # None
                       THEN [b2 EXCEPT !.billingCycle = The(body.billingCycle)] ELSE b2
                 b4 == IF body.status # None /\ The(body.status) \in BillingStatus
                       THEN [b3 EXCEPT !.status = The(body.status)] ELSE b3
                 valid == b4.billingCycle \in BillingCycles
             IN \/ /\ valid
                   /\ db' = [db EXCEPT ![w].billing = b4]
                   /\ response' = Respond("updateBilling", 200, "none")
                \/ /\ response' = Respond("updateBilling", 500, "none")
                   /\ UNCHANGED db
    /\ UNCHANGED <<clock, pc, run, call, store>>

\* updateBilling that counts the due date again when the cycle is supplied.
UpdateBillingRecomputingDue(w, body) ==
    /\ \/ /\ ~db[w].exists
          /\ response' = Respond("updateBilling", 404, "none")
          /\ UNCHANGED db
       \/ /\ db[w].exists
          /\ LET b0 == db[w].billing
                 b1 == IF body.plan # None
                       THEN [b0 EXCEPT !.plan = toLowerCaseTrim(The(body.plan))] ELSE b0
                 b2 == IF body.price # None THEN [b1 EXCEPT !.price = The(body.price)] ELSE b1
                 b3 == IF body.billingCycle # None
                       THEN [b2 EXCEPT !.billingCycle = The(body.billingCycle),
                                       !.dueAt = calculateNextDueDate(clock, The(body.billingCycle))]
                       ELSE b2
                 b4 == IF body.status # None /\ The(body.status) \in BillingStatus
                       THEN [b3 EXCEPT !.status = The(body.status)] ELSE b3
                 valid == /\ b4.billingCycle \in BillingCycles
                          /\ (body.price # None => b4.price >= 0)
             IN \/ /\ valid
                   /\ db' = [db EXCEPT ![w].billing = b4]
                   /\ response' = Respond("updateBilling", 200, "none")
                \/ /\ response' = Respond("updateBilling", 500, "none")
                   /\ UNCHANGED db
    /\ UNCHANGED <<clock, pc, run, call, store>>

UpdateBilling(w, body) ==
    /\ \/ /\ ~db[w].exists
          /\ response' = Respond("updateBilling", 404, "none")
          /\ UNCHANGED db
       \/ /\ db[w].exists
          /\ LET b0 == db[w].billing
                 b1 == IF body.plan # None
                       THEN [b0 EXCEPT !.plan = toLowerCaseTrim(The(body.plan))] ELSE b0
                 b2 == IF body.price # None THEN [b1 EXCEPT !.price = The(body.price)] ELSE b1
                 b3 == IF body.billingCycle # None
                       THEN [b2 EXCEPT !.billingCycle = The(body.billingCycle)] ELSE b2
                 b4 == IF body.status # None /\ The(body.status) \in BillingStatus
                       THEN [b3 EXCEPT !.status = The(body.status)] ELSE b3
                 valid == /\ b4.billingCycle \in BillingCycles
                          /\ (body.price # None => b4.price >= 0)
             IN \/ /\ valid
                   /\ db' = [db EXCEPT ![w].billing = b4]
                   /\ response' = Respond("updateBilling", 200, "none")
                \/ \* website.save() rejects: a validator fails or the store does
                   /\ response' = Respond("updateBilling", 500, "none")
                   /\ UNCHANGED db
    /\ UNCHANGED <<clock, pc, run, call, store>>

\* The POST /websites/:id/payment bodies the model sends.
PaymentBodies ==
    {[amount |-> Some(50), method |-> Some("card"), transactionId |-> Some("tx1")],
     [amount |-> Some(0), method |-> None, transactionId |-> None],
     [amount |-> Some(-5), method |-> Some("card"), transactionId |-> None],
     [amount |-> None, method |-> Some("card"), transactionId |-> Some("tx1")]}

\* The amount check without its amount <= 0 half.
AmountMissingOrZero(body) ==
    IF body.amount = None THEN TRUE
    ELSE The(body.amount) = 0

\* !amount || amount <= 0
InvalidAmount(body) ==
    IF body.amount = None THEN TRUE
    ELSE IF The(body.amount) = 0 THEN TRUE
    ELSE The(body.amount) <= 0

PaymentEntry(body, now) ==
    [amount |-> The(body.amount),
     date |-> now,
     method |-> IF body.method # None THEN The(body.method) ELSE NoString,
     transactionId |-> IF body.transactionId # None THEN The(body.transactionId) ELSE NoString]

\* PaidBilling that counts the next due date from the old one.
PaidFromOldDue(b, body, now) ==
    [b EXCEPT !.paymentHistory = Append(@, PaymentEntry(body, now)),
              !.status = "ACTIVE",
              !.lastPaymentAt = now,
              !.dueAt = calculateNextDueDate(b.dueAt, b.billingCycle)]

\* PaidBilling that assigns the history instead of pushing onto it.
PaidReplacingHistory(b, body, now) ==
    [b EXCEPT !.paymentHistory = <<PaymentEntry(body, now)>>,
              !.status = "ACTIVE",
              !.lastPaymentAt = now,
              !.dueAt = calculateNextDueDate(now, b.billingCycle)]

\* The billing sub-document recordPayment hands to save().
PaidBilling(b, body, now) ==
    [b EXCEPT !.paymentHistory = Append(@, PaymentEntry(body, now)),
              !.status = "ACTIVE",
              !.lastPaymentAt = now,
              !.dueAt = calculateNextDueDate(now, b.billingCycle)]

RecordPayment(w, body) ==
    /\ \/ /\ InvalidAmount(body)
          /\ response' = Respond("recordPayment", 400, "none")
          /\ UNCHANGED db
       \/ /\ ~InvalidAmount(body)
          /\ ~db[w].exists
          /\ response' = Respond("recordPayment", 404, "none")
          /\ UNCHANGED db
       \/ /\ ~InvalidAmount(body)
          /\ db[w].exists
          /\ Len(db[w].billing.paymentHistory) < MaxPayments
          /\ \/ /\ db' = [db EXCEPT ![w].billing = PaidBilling(@, body, clock)]
                /\ response' = Respond("recordPayment", 200, "none")
             \/ \* website.save() rejects
                /\ response' = Respond("recordPayment", 500, "none")
                /\ UNCHANGED db
    /\ UNCHANGED <<clock, pc, run, call, store>>

\* ------------------------------------------------ jobs/billingCron.ts
\* The filter without the second branch of its $or.
IsCandidatePendingOnly(website, now) ==
    /\ website.exists
    /\ website.billing.status = "PENDING"
    /\ website.billing.graceEndsAt # NoDate
    /\ website.billing.graceEndsAt < now

\* The filter written with $lte where the code has $lt.
IsCandidateInclusive(website, now) ==
    /\ website.exists
    /\ \/ /\ website.billing.status = "PENDING"
          /\ website.billing.graceEndsAt # NoDate
          /\ website.billing.graceEndsAt <= now
       \/ /\ website.billing.status = "ACTIVE"
          /\ website.billing.dueAt # NoDate
          /\ website.billing.dueAt <= now

\* The filter matching a deadline that is not set as one that has passed.
IsCandidateUnsetAsPassed(website, now) ==
    /\ website.exists
    /\ \/ /\ website.billing.status = "PENDING"
          /\ website.billing.graceEndsAt < now
       \/ /\ website.billing.status = "ACTIVE"
          /\ website.billing.dueAt < now

\* The filter of the candidate query.
IsCandidate(website, now) ==
    /\ website.exists
    /\ \/ /\ website.billing.status = "PENDING"
          /\ website.billing.graceEndsAt # NoDate
          /\ website.billing.graceEndsAt < now
       \/ /\ website.billing.status = "ACTIVE"
          /\ website.billing.dueAt # NoDate
          /\ website.billing.dueAt < now

\* The order of insertion, in which find returns the documents.
IdOrder(x, y) == (x = "w1" /\ y = "w2")

\* The ids of a set in that order, as a sequence.
RECURSIVE InOrder(_)
InOrder(S) ==
    IF S = {} THEN <<>>
    ELSE LET first == CHOOSE x \in S : \A y \in S : x = y \/ IdOrder(x, y)
         IN <<first>> \o InOrder(S \ {first})

\* Website.find(...): the matching documents as loaded, nothing modified yet.
FindCandidates(now) ==
    LET ids == InOrder({w \in Websites : IsCandidate(db[w], now)})
    IN [k \in 1..Len(ids) |-> [id |-> ids[k], billing |-> db[ids[k]].billing, modified |-> {}]]

\* The start of updateBillingStatuses: now is read and the candidates are
\* fetched.  follows tells whether this call comes right after a call that
\* resolved, and how that call ended.
Fetch(r, follows) ==
    /\ \/ /\ pc' = [pc EXCEPT ![r] = "loop"]
          /\ run' = [run EXCEPT ![r] = [IdleRun EXCEPT !.now = clock,
                                                       !.websites = FindCandidates(clock),
                                                       !.pre = db,
                                                       !.follows = follows]]
       \/ \* Website.find rejects: logged and thrown on
          /\ pc' = [pc EXCEPT ![r] = "threw"]
          /\ run' = [run EXCEPT ![r] = [IdleRun EXCEPT !.now = clock,
                                                       !.pre = db,
                                                       !.follows = follows]]
    /\ UNCHANGED <<clock, db, response, call, store>>

RunFetch(r) ==
    /\ pc[r] = "idle"
    /\ Fetch(r, "none")

\* The caller calls updateBillingStatuses again as soon as the first call has
\* resolved.
RunAgain(r) ==
    /\ pc[r] = "done"
    /\ Fetch(r, IF run[r].errors = 0 THEN "clean" ELSE "faulty")

\* How one notification attempt ends: the request lookup rejects, the send
\* rejects, or the e-mail goes out.
Outcomes == {"lookupThrew", "sendThrew", "delivered"}

\* SuspendIfGraceEnded that forgets to stamp suspendedAt.
SuspendWithoutStamp(doc, now) ==
    IF /\ doc.billing.status = "PENDING"
       /\ doc.billing.graceEndsAt # NoDate
       /\ doc.billing.graceEndsAt < now
    THEN [doc EXCEPT !.billing.status = "SUSPENDED",
                     !.modified = @ \cup {"status"}]
    ELSE doc

\* PENDING -> SUSPENDED on the loaded document.
SuspendIfGraceEnded(doc, now) ==
    IF /\ doc.billing.status = "PENDING"
       /\ doc.billing.graceEndsAt # NoDate
       /\ doc.billing.graceEndsAt < now
    THEN [doc EXCEPT !.billing.status = "SUSPENDED",
                     !.billing.suspendedAt = now,
                     !.modified = @ \cup {"status", "suspendedAt"}]
    ELSE doc

\* OverdueIfDuePassed that stamps suspendedAt as the other branch does.
OverdueWithStamp(doc, now) ==
    IF /\ doc.billing.status = "ACTIVE"
       /\ doc.billing.dueAt # NoDate
       /\ doc.billing.dueAt < now
    THEN [doc EXCEPT !.billing.status = "OVERDUE",
                     !.billing.suspendedAt = now,
                     !.modified = @ \cup {"status", "suspendedAt"}]
    ELSE doc

\* OverdueIfDuePassed that assigns the wrong member of BillingStatus.
OverdueAsSuspended(doc, now) ==
    IF /\ doc.billing.status = "ACTIVE"
       /\ doc.billing.dueAt # NoDate
       /\ doc.billing.dueAt < now
    THEN [doc EXCEPT !.billing.status = "SUSPENDED",
                     !.modified = @ \cup {"status"}]
    ELSE doc

\* OverdueIfDuePassed that tests the due date of every document not yet OVERDUE.
OverdueWhateverStatus(doc, now) ==
    IF /\ doc.billing.status # "OVERDUE"
       /\ doc.billing.dueAt # NoDate
       /\ doc.billing.dueAt < now
    THEN [doc EXCEPT !.billing.status = "OVERDUE",
                     !.modified = @ \cup {"status"}]
    ELSE doc

\* ACTIVE -> OVERDUE on the loaded document.
OverdueIfDuePassed(doc, now) ==
    IF /\ doc.billing.status = "ACTIVE"
       /\ doc.billing.dueAt # NoDate
       /\ doc.billing.dueAt < now
    THEN [doc EXCEPT !.billing.status = "OVERDUE",
                     !.modified = @ \cup {"status"}]
    ELSE doc

\* RunProcess without the try around the send: a send that throws reaches the
\* catch of the record, which counts an error and skips the save.
RunProcessEscalating(r) ==
    /\ pc[r] = "loop"
    /\ run[r].i <= Len(run[r].websites)
    /\ \E o1 \in Outcomes, o2 \in Outcomes :
         LET now == run[r].now
             website == run[r].websites[run[r].i]
             suspended == SuspendIfGraceEnded(website, now)
             toSuspended == suspended # website
             overdue == OverdueIfDuePassed(suspended, now)
             toOverdue == overdue # suspended
             statusChanged == toSuspended \/ toOverdue
             escaped == (toSuspended /\ o1 = "sendThrew") \/ (toOverdue /\ o2 = "sendThrew")
             notes == (IF toSuspended
                       THEN <<[id |-> website.id, kind |-> "suspension", outcome |-> o1]>>
                       ELSE <<>>)
                      \o (IF toOverdue
                          THEN <<[id |-> website.id, kind |-> "overdue", outcome |-> o2]>>
                          ELSE <<>>)
         IN /\ run' = [run EXCEPT
                         ![r].websites[run[r].i] = overdue,
                         ![r].pendingToSuspended = @ + (IF toSuspended THEN 1 ELSE 0),
                         ![r].activeToOverdue = @ + (IF toOverdue THEN 1 ELSE 0),
                         ![r].mail = @ \o notes,
                         ![r].errors = @ + (IF escaped THEN 1 ELSE 0),
                         ![r].failed = IF escaped THEN @ \cup {website.id} ELSE @,
                         ![r].i = IF statusChanged /\ ~escaped THEN @ ELSE @ + 1]
            /\ pc' = [pc EXCEPT ![r] = IF statusChanged /\ ~escaped THEN "save" ELSE "loop"]
    /\ UNCHANGED <<clock, db, response, call, store>>

\* The body of the loop up to the save: both branches on the loaded document,
\* each with its counter and its notification attempt.
RunProcess(r) ==
    /\ pc[r] = "loop"
    /\ run[r].i <= Len(run[r].websites)
    /\ \E o1 \in Outcomes, o2 \in Outcomes :
         LET now == run[r].now
             website == run[r].websites[run[r].i]
             suspended == SuspendIfGraceEnded(website, now)
             toSuspended == suspended # website
             overdue == OverdueIfDuePassed(suspended, now)
             toOverdue == overdue # suspended
             statusChanged == toSuspended \/ toOverdue
             notes == (IF toSuspended
                       THEN <<[id |-> website.id, kind |-> "suspension", outcome |-> o1]>>
                       ELSE <<>>)
                      \o (IF toOverdue
                          THEN <<[id |-> website.id, kind |-> "overdue", outcome |-> o2]>>
                          ELSE <<>>)
         IN /\ run' = [run EXCEPT
                         ![r].websites[run[r].i] = overdue,
                         ![r].pendingToSuspended = @ + (IF toSuspended THEN 1 ELSE 0),
                         ![r].activeToOverdue = @ + (IF toOverdue THEN 1 ELSE 0),
                         ![r].mail = @ \o notes,
                         ![r].i = IF statusChanged THEN @ ELSE @ + 1]
            /\ pc' = [pc EXCEPT ![r] = IF statusChanged THEN "save" ELSE "loop"]
    /\ UNCHANGED <<clock, db, response, call, store>>

\* A save that resolves without writing anything.
PersistNothing(stored, doc) == stored

\* website.save() writes the modified paths of the loaded document and no other.
Persist(stored, doc) ==
    [f \in DOMAIN stored |-> IF f \in doc.modified THEN doc.billing[f] ELSE stored[f]]

\* RunSave without the catch of the record: a save that rejects is thrown on
\* to the caller.
RunSaveThrowing(r) ==
    /\ pc[r] = "save"
    /\ LET website == run[r].websites[run[r].i]
       IN \/ /\ db' = [db EXCEPT ![website.id].billing = Persist(@, website)]
             /\ run' = [run EXCEPT ![r].i = @ + 1]
             /\ pc' = [pc EXCEPT ![r] = "loop"]
          \/ /\ run' = [run EXCEPT ![r].failed = @ \cup {website.id}]
             /\ pc' = [pc EXCEPT ![r] = "threw"]
             /\ UNCHANGED db
    /\ UNCHANGED <<clock, response, call, store>>

\* RunSave whose catch is outside the loop: a save that rejects ends the loop.
RunSaveBreaking(r) ==
    /\ pc[r] = "save"
    /\ LET website == run[r].websites[run[r].i]
       IN \/ /\ db' = [db EXCEPT ![website.id].billing = Persist(@, website)]
             /\ run' = [run EXCEPT ![r].i = @ + 1]
          \/ /\ run' = [run EXCEPT ![r].i = Len(run[r].websites) + 1,
                                   ![r].errors = @ + 1,
                                   ![r].failed = @ \cup {website.id}]
             /\ UNCHANGED db
    /\ pc' = [pc EXCEPT ![r] = "loop"]
    /\ UNCHANGED <<clock, response, call, store>>

RunSave(r) ==
    /\ pc[r] = "save"
    /\ LET website == run[r].websites[run[r].i]
       IN \/ /\ db' = [db EXCEPT ![website.id].billing = Persist(@, website)]
             /\ run' = [run EXCEPT ![r].i = @ + 1]
          \/ \* website.save() rejects: caught, logged and counted
             /\ run' = [run EXCEPT ![r].i = @ + 1,
                                   ![r].errors = @ + 1,
                                   ![r].failed = @ \cup {website.id}]
             /\ UNCHANGED db
    /\ pc' = [pc EXCEPT ![r] = "loop"]
    /\ UNCHANGED <<clock, response, call, store>>

\* The loop is over: the summary is logged and the promise resolves.
RunFinish(r) ==
    /\ pc[r] = "loop"
    /\ run[r].i > Len(run[r].websites)
    /\ pc' = [pc EXCEPT ![r] = "done"]
    /\ UNCHANGED <<clock, db, response, run, call, store>>

\* The caller of updateBillingStatuses: the cron callback logs, the endpoint
\* POST /api/admin/billing/check answers.
RunReturn(r) ==
    /\ pc[r] \in {"done", "threw"}
    /\ pc' = [pc EXCEPT ![r] = "idle"]
    /\ run' = [run EXCEPT ![r] = IdleRun]
    /\ response' = IF r = "manual"
                   THEN Respond("billingCheck", IF pc[r] = "done" THEN 200 ELSE 500, "none")
                   ELSE response
    /\ UNCHANGED <<clock, db, call, store>>

\* The process is shut down while a run is between two records or waiting for
\* a save; the run is gone, and startBillingCron schedules the job again when
\* the server comes back up.
RunCancel(r) ==
    /\ pc[r] \in {"loop", "save"}
    /\ pc' = [pc EXCEPT ![r] = "idle"]
    /\ run' = [run EXCEPT ![r] = IdleRun]
    /\ UNCHANGED <<clock, db, response, call, store>>

\* ------------------------------------------------ middleware/billingGuard.ts
\* What a middleware did with the request: the status code it answered with (0
\* when it answered nothing), whether it called next(), with an error or
\* without, and the X-Billing-Status header it set.
GuardAnswer(op, code, next, header) ==
    [op |-> op, code |-> code, email |-> "none", next |-> next, header |-> header]

\* req.params.id || req.params.websiteId: an id, or NoString on a route that
\* has neither parameter.
GuardIds == Websites \cup {NoString}

\* checkBillingStatus that treats OVERDUE as the strict check does.
CheckBillingStatusBlockingOverdue(websiteId) ==
    /\ \/ /\ websiteId = NoString
          /\ response' = GuardAnswer("checkBillingStatus", 0, "called", "none")
       \/ /\ websiteId # NoString
          /\ \/ /\ ~db[websiteId].exists
                /\ response' = GuardAnswer("checkBillingStatus", 404, "no", "none")
             \/ /\ db[websiteId].exists
                /\ db[websiteId].billing.status \in {"SUSPENDED", "OVERDUE"}
                /\ response' = GuardAnswer("checkBillingStatus", 402, "no", "none")
             \/ /\ db[websiteId].exists
                /\ db[websiteId].billing.status \notin {"SUSPENDED", "OVERDUE"}
                /\ response' = GuardAnswer("checkBillingStatus", 0, "called", "none")
             \/ response' = GuardAnswer("checkBillingStatus", 0, "error", "none")
    /\ UNCHANGED <<clock, db, pc, run, call, store>>

CheckBillingStatus(websiteId) ==
    /\ \/ /\ websiteId = NoString
          /\ response' = GuardAnswer("checkBillingStatus", 0, "called", "none")
       \/ /\ websiteId # NoString
          /\ \/ /\ ~db[websiteId].exists
                /\ response' = GuardAnswer("checkBillingStatus", 404, "no", "none")
             \/ /\ db[websiteId].exists
                /\ db[websiteId].billing.status = "SUSPENDED"
                /\ response' = GuardAnswer("checkBillingStatus", 402, "no", "none")
             \/ /\ db[websiteId].exists
                /\ db[websiteId].billing.status = "OVERDUE"
                /\ response' = GuardAnswer("checkBillingStatus", 0, "called", "OVERDUE")
             \/ /\ db[websiteId].exists
                /\ db[websiteId].billing.status \notin {"SUSPENDED", "OVERDUE"}
                /\ response' = GuardAnswer("checkBillingStatus", 0, "called", "none")
             \/ \* Website.findById rejects: next(error)
                response' = GuardAnswer("checkBillingStatus", 0, "error", "none")
    /\ UNCHANGED <<clock, db, pc, run, call, store>>

StrictBillingCheck(websiteId) ==
    /\ \/ /\ websiteId = NoString
          /\ response' = GuardAnswer("strictBillingCheck", 0, "called", "none")
       \/ /\ websiteId # NoString
          /\ \/ /\ ~db[websiteId].exists
                /\ response' = GuardAnswer("strictBillingCheck", 404, "no", "none")
             \/ /\ db[websiteId].exists
                /\ db[websiteId].billing.status \in {"SUSPENDED", "OVERDUE"}
                /\ response' = GuardAnswer("strictBillingCheck", 402, "no", "none")
             \/ /\ db[websiteId].exists
                /\ db[websiteId].billing.status \notin {"SUSPENDED", "OVERDUE"}
                /\ response' = GuardAnswer("strictBillingCheck", 0, "called", "none")
             \/ \* Website.findById rejects: next(error)
                response' = GuardAnswer("strictBillingCheck", 0, "error", "none")
    /\ UNCHANGED <<clock, db, pc, run, call, store>>

\* ------------------------------------------------ middleware/rateLimiter.ts
\* Date.now(): the clock of the limiter counts whole days of the uptime of the
\* process, in milliseconds here.
DateNow == clock * MsPerDay

\* supportRequestLimiter = createRateLimiter(5, 24 * 60 * 60 * 1000, ...)
SupportMaxRequests == 5

SupportWindowMs == 24 * 60 * 60 * 1000

\* A rejected request still counts: the model stops counting at MaxCount.
MaxCount == 7

\* The days of uptime the model follows.
MaxUptimeDays == 3

\* A header or a body field the limiter did not set.
NoHeader == -1

\* What the limiter did with the request: the status code it answered with (0
\* when it answered nothing), whether it called next(), the retryAfter of the
\* body and the X-RateLimit-Remaining and X-RateLimit-Reset headers.
LimiterAnswer(code, next, retryAfter, remaining, reset) ==
    [op |-> "rateLimiter", code |-> code, email |-> "none", next |-> next,
     retryAfter |-> retryAfter, remaining |-> remaining, reset |-> reset]

\* The middleware createRateLimiter returns, with the limit tested before the
\* request is counted.
RateLimiterTestingFirst(maxRequests, windowMs, userId, path) ==
    /\ \/ /\ userId = NoString
          /\ response' = LimiterAnswer(0, "called", NoHeader, NoHeader, NoHeader)
          /\ UNCHANGED store
       \/ /\ userId # NoString
          /\ LET key == KeyOf(userId, path)
                 now == DateNow
             IN IF store[key] = NoEntry \/ store[key].resetTime < now
                THEN /\ store' = [store EXCEPT ![key] =
                                    [count |-> 1, resetTime |-> now + windowMs, passed |-> 1]]
                     /\ response' = LimiterAnswer(0, "called", NoHeader, NoHeader, NoHeader)
                ELSE /\ store[key].count < MaxCount
                     /\ IF store[key].count > maxRequests
                        THEN /\ store' = [store EXCEPT ![key].count = @ + 1]
                             /\ response' = LimiterAnswer(429, "none", store[key].resetTime,
                                                          NoHeader, NoHeader)
                        ELSE /\ store' = [store EXCEPT ![key].count = @ + 1,
                                                       ![key].passed = @ + 1]
                             /\ response' = LimiterAnswer(0, "called", NoHeader,
                                                          maxRequests - (store[key].count + 1),
                                                          store[key].resetTime)
    /\ UNCHANGED <<clock, db, pc, run, call>>

\* The middleware createRateLimiter(maxRequests, windowMs) returns, serving a
\* request of userId on path.
createRateLimiter(maxRequests, windowMs, userId, path) ==
    /\ \/ /\ userId = NoString
          /\ response' = LimiterAnswer(0, "called", NoHeader, NoHeader, NoHeader)
          /\ UNCHANGED store
       \/ /\ userId # NoString
          /\ LET key == KeyOf(userId, path)
                 now == DateNow
             IN IF store[key] = NoEntry \/ store[key].resetTime < now
                THEN \* no entry, or its window has passed: a new window
                     /\ store' = [store EXCEPT ![key] =
                                    [count |-> 1, resetTime |-> now + windowMs, passed |-> 1]]
                     /\ response' = LimiterAnswer(0, "called", NoHeader, NoHeader, NoHeader)
                ELSE /\ store[key].count < MaxCount
                     /\ LET count == store[key].count + 1
                        IN IF count > maxRequests
                           THEN /\ store' = [store EXCEPT ![key].count = count]
                                /\ response' = LimiterAnswer(429, "none", store[key].resetTime,
                                                             NoHeader, NoHeader)
                           ELSE /\ store' = [store EXCEPT ![key].count = count,
                                                          ![key].passed = @ + 1]
                                /\ response' = LimiterAnswer(0, "called", NoHeader,
                                                             maxRequests - count,
                                                             store[key].resetTime)
    /\ UNCHANGED <<clock, db, pc, run, call>>

supportRequestLimiter(userId, path) ==
    createRateLimiter(SupportMaxRequests, SupportWindowMs, userId, path)

\* The hourly clean-up, when there is an entry for it to delete.
Cleanup ==
    /\ \E key \in Keys : store[key] # NoEntry /\ store[key].resetTime < DateNow
    /\ store' = [key \in Keys |->
                   IF store[key] # NoEntry /\ store[key].resetTime < DateNow
                   THEN NoEntry ELSE store[key]]
    /\ UNCHANGED <<clock, db, response, pc, run, call>>

\* A day of uptime goes by.
Elapse ==
    /\ clock < MaxUptimeDays
    /\ clock' = clock + 1
    /\ UNCHANGED <<db, response, pc, run, call, store>>

\* ------------------------------------------------ the specifications
\* Handlers run one at a time: no request is served and no second run starts
\* while a reconciliation run is in progress.
\* Spec: every admin operation, with every body of the model, on one website,
\* and the scheduled run.
Next ==
    \/ Quiet /\ Tick
    \/ \E w \in {"w1"} : Quiet /\ ApproveRequest(w)
    \/ \E w \in {"w1"}, status \in StatusInputs : Quiet /\ UpdateWebsiteStatus(w, status)
    \/ \E w \in {"w1"}, updateData \in WebsiteBodies : Quiet /\ UpdateWebsite(w, updateData)
    \/ \E w \in {"w1"}, body \in BillingBodies : Quiet /\ UpdateBilling(w, body)
    \/ \E w \in {"w1"}, body \in PaymentBodies : Quiet /\ RecordPayment(w, body)
    \/ \E r \in {"cron"} : Quiet /\ RunFetch(r)
    \/ \E r \in {"cron"} : RunProcess(r)
    \/ \E r \in {"cron"} : RunSave(r)
    \/ \E r \in {"cron"} : RunFinish(r)
    \/ \E r \in {"cron"} : RunReturn(r)

Spec == Init /\ [][Next]_vars

\* The bodies of an accepted payment.
ValidPayments == {body \in PaymentBodies : ~InvalidAmount(body)}

\* Every website approved and then deployed through PATCH /websites/:id/status
\* on StartDay.
InitBatch ==
    /\ clock = StartDay
    /\ db = [w \in Websites |->
               [exists |-> TRUE,
                status |-> "DEPLOYED",
                billing |-> ApplyInitialBilling(DefaultBilling,
                              initializeBilling(NoPlan, NoPrice, "monthly", StartDay))]]
    /\ response = Respond("updateWebsiteStatus", 200, "activated")
    /\ pc = [r \in Runners |-> "idle"]
    /\ run = [r \in Runners |-> IdleRun]
    /\ call = NoCall
    /\ store = EmptyStore

\* SpecBatch: several deployed websites, their payments and the scheduled run;
\* still one handler at a time.
NextBatch ==
    \/ Quiet /\ Tick
    \/ \E w \in Websites, body \in ValidPayments : Quiet /\ RecordPayment(w, body)
    \/ \E r \in {"cron"} : Quiet /\ RunFetch(r)
    \/ \E r \in {"cron"} : RunProcess(r)
    \/ \E r \in {"cron"} : RunSave(r)
    \/ \E r \in {"cron"} : RunFinish(r)
    \/ \E r \in {"cron"} : RunReturn(r)
    \/ \E r \in {"cron"} : RunAgain(r)

SpecBatch == InitBatch /\ [][NextBatch]_vars

\* One website approved and then deployed through PATCH /websites/:id/status
\* on StartDay.
InitOverlap ==
    /\ clock = StartDay
    /\ db = [w \in Websites |->
               IF w = "w1"
               THEN [exists |-> TRUE,
                     status |-> "DEPLOYED",
                     billing |-> ApplyInitialBilling(DefaultBilling,
                                   initializeBilling(NoPlan, NoPrice, "monthly", StartDay))]
               ELSE Absent]
    /\ response = Respond("updateWebsiteStatus", 200, "activated")
    /\ pc = [r \in Runners |-> "idle"]
    /\ run = [r \in Runners |-> IdleRun]
    /\ call = NoCall
    /\ store = EmptyStore

\* SpecOverlap: the handlers interleave at their awaits: a payment is recorded
\* and a second run starts while a run is in progress.
NextOverlap ==
    \/ Quiet /\ Tick
    \/ \E w \in {"w1"}, body \in ValidPayments : RecordPayment(w, body)
    \/ \E r \in Runners : RunFetch(r)
    \/ \E r \in Runners : RunProcess(r)
    \/ \E r \in Runners : RunSave(r)
    \/ \E r \in Runners : RunFinish(r)
    \/ \E r \in Runners : RunReturn(r)

SpecOverlap == InitOverlap /\ [][NextOverlap]_vars

\* SpecGuard: one deployed website through its billing statuses (payments and
\* the scheduled run, one handler at a time) and the two guards in front of
\* requests for it, for an id that is not in the collection and for no id.
NextGuard ==
    \/ Quiet /\ Tick
    \/ \E body \in ValidPayments : Quiet /\ RecordPayment("w1", body)
    \/ \E r \in {"cron"} : Quiet /\ RunFetch(r)
    \/ \E r \in {"cron"} : RunProcess(r)
    \/ \E r \in {"cron"} : RunSave(r)
    \/ \E r \in {"cron"} : RunFinish(r)
    \/ \E r \in {"cron"} : RunReturn(r)
    \/ \E websiteId \in GuardIds : Quiet /\ CheckBillingStatus(websiteId)
    \/ \E websiteId \in GuardIds : Quiet /\ StrictBillingCheck(websiteId)

SpecGuard == InitOverlap /\ [][NextGuard]_vars

\* SpecLive: two deployed websites, w1 never paid and w2 paid on StartDay, no
\* payment and no admin edit afterwards; the scheduled job runs again and again,
\* runs may fail to fetch, fail to save and be cut short by a shutdown.
InitLive ==
    /\ clock = StartDay
    /\ db = [w \in Websites |->
               [exists |-> TRUE,
                status |-> "DEPLOYED",
                billing |->
                   LET initial == ApplyInitialBilling(DefaultBilling,
                                     initializeBilling(NoPlan, NoPrice, "monthly", StartDay))
                   IN IF w = "w1" THEN initial
                      ELSE PaidBilling(initial,
                                       [amount |-> Some(50), method |-> Some("card"),
                                        transactionId |-> Some("tx1")],
                                       StartDay)]]
    /\ response = Respond("recordPayment", 200, "none")
    /\ pc = [r \in Runners |-> "idle"]
    /\ run = [r \in Runners |-> IdleRun]
    /\ call = NoCall
    /\ store = EmptyStore

NextLive ==
    \/ Quiet /\ Tick
    \/ \E r \in {"cron"} : Quiet /\ RunFetch(r)
    \/ \E r \in {"cron"} : RunProcess(r)
    \/ \E r \in {"cron"} : RunSave(r)
    \/ \E r \in {"cron"} : RunFinish(r)
    \/ \E r \in {"cron"} : RunReturn(r)
    \/ \E r \in {"cron"} : RunAgain(r)
    \/ \E r \in {"cron"} : RunCancel(r)

\* The scheduler keeps starting runs, the event loop keeps resuming a run that
\* is not shut down, and the store does not reject for ever: a fetch and a
\* save that are attempted again and again succeed at some time.
FairLive ==
    \A r \in {"cron"} :
        /\ SF_vars(RunFetch(r) /\ pc'[r] = "loop")
        /\ SF_vars(RunProcess(r))
        /\ SF_vars(RunSave(r) /\ run'[r].errors = run[r].errors)
        /\ SF_vars(RunFinish(r))
        /\ WF_vars(RunReturn(r))

SpecLive == InitLive /\ [][NextLive]_vars /\ FairLive

\* SpecUtils: the functions of utils/billingUtils.ts called directly, on every
\* day from 1 January of EpochYear to MaxDay days later.
Days == 0..MaxDay

\* The cycle arguments: the three of the type, one outside it and undefined.
CycleInputs == BillingCycles \cup {"weekly", NoString}

InitUtils ==
    /\ clock \in Days
    /\ db = [w \in Websites |-> Absent]
    /\ response = Respond("none", 0, "none")
    /\ pc = [r \in Runners |-> "idle"]
    /\ run = [r \in Runners |-> IdleRun]
    /\ call = NoCall
    /\ store = EmptyStore

CallCalculateNextDueDate(cycle) ==
    /\ call' = [fn |-> "calculateNextDueDate", date |-> clock, arg |-> cycle,
                result |-> calculateNextDueDate(clock, cycle)]
    /\ UNCHANGED <<clock, db, response, pc, run, store>>

\* The numbers of months calculateNextDueDate adds.
MonthInputs == {1, 3, 12}

CallAddMonths(months) ==
    /\ call' = [fn |-> "addMonths", date |-> clock, arg |-> months,
                result |-> addMonths(clock, months)]
    /\ UNCHANGED <<clock, db, response, pc, run, store>>

\* initializeBilling called with no plan and no price; result is the dueAt of
\* what it returns.
CallInitializeBilling(cycle) ==
    /\ call' = [fn |-> "initializeBilling", date |-> clock, arg |-> cycle,
                result |-> initializeBilling(NoPlan, NoPrice, cycle, clock).dueAt]
    /\ UNCHANGED <<clock, db, response, pc, run, store>>

\* Times of day in milliseconds after midnight: midnight, one millisecond
\* later, noon and the last millisecond of the day.
TimesOfDay == {0, 1, MsPerDay \div 2, MsPerDay - 1}

\* How many midnights away a due date of the model is, before and after.
MaxDaysAway == 2

\* The due dates handed to getDaysRemaining, in milliseconds from the
\* midnight before the call.
DueTimes == {k * MsPerDay + t : k \in (0 - MaxDaysAway)..MaxDaysAway, t \in TimesOfDay}

CallGetDaysRemaining(dueDate, now) ==
    /\ call' = [fn |-> "getDaysRemaining", date |-> dueDate, arg |-> now,
                result |-> getDaysRemaining(dueDate, now)]
    /\ UNCHANGED <<clock, db, response, pc, run, store>>

NextUtils ==
    \/ \E dueDate \in DueTimes, now \in TimesOfDay : CallGetDaysRemaining(dueDate, now)
    \/ \E cycle \in CycleInputs : CallCalculateNextDueDate(cycle)
    \/ \E months \in MonthInputs : CallAddMonths(months)
    \/ \E cycle \in BillingCycles : CallInitializeBilling(cycle)

SpecUtils == InitUtils /\ [][NextUtils]_vars

\* SpecLimiter: the support router's limiter in one process, from its start:
\* requests of two users and unauthenticated ones, the clean-up and the days
\* going by.
InitLimiter ==
    /\ clock = 0
    /\ db = [w \in Websites |-> Absent]
    /\ response = Respond("none", 0, "none")
    /\ pc = [r \in Runners |-> "idle"]
    /\ run = [r \in Runners |-> IdleRun]
    /\ call = NoCall
    /\ store = EmptyStore

NextLimiter ==
    \/ Elapse
    \/ \E userId \in UserInputs, path \in Paths : supportRequestLimiter(userId, path)
    \/ Cleanup

SpecLimiter == InitLimiter /\ [][NextLimiter]_vars

\* ------------------------------------------------ the properties
\* What a finished run r found when it fetched: website w was PENDING with its
\* grace period over, or ACTIVE with its due date passed.
GraceEnded(r, w) ==
    /\ run[r].pre[w].exists
    /\ run[r].pre[w].billing.status = "PENDING"
    /\ run[r].pre[w].billing.graceEndsAt # NoDate
    /\ run[r].pre[w].billing.graceEndsAt < run[r].now

DuePassed(r, w) ==
    /\ run[r].pre[w].exists
    /\ run[r].pre[w].billing.status = "ACTIVE"
    /\ run[r].pre[w].billing.dueAt # NoDate
    /\ run[r].pre[w].billing.dueAt < run[r].now

\* The notification blocks run r entered for website w, and those of them
\* that came to call the send function.
Attempts(r, w, kind) ==
    {k \in 1..Len(run[r].mail) : run[r].mail[k].id = w /\ run[r].mail[k].kind = kind}

Sends(r, w, kind) ==
    {k \in Attempts(r, w, kind) : run[r].mail[k].outcome # "lookupThrew"}

\* The billing fields a run never writes.
FrameFields == DOMAIN DefaultBilling \ {"status", "suspendedAt"}

\* C1 as the spec states it: after a complete run every website that was
\* PENDING with graceEndsAt < now is stored SUSPENDED with suspendedAt = now and
\* exactly one suspension notification was sent for it.
C1_AsStated ==
    \A r \in Runners : pc[r] = "done" =>
        \A w \in Websites : GraceEnded(r, w) =>
            /\ db[w].billing.status = "SUSPENDED"
            /\ db[w].billing.suspendedAt = run[r].now
            /\ Cardinality(Sends(r, w, "suspension")) = 1

\* C1 amended: after a complete run, a website that was PENDING with
\* graceEndsAt < now and whose save succeeded is stored SUSPENDED with
\* suspendedAt = now; the run entered the suspension notification once for it
\* and called the send once if the lookup of the request succeeded, not at all
\* if it did not.
C1_SuspendsWhenSaved ==
    \A r \in Runners : pc[r] = "done" =>
        \A w \in Websites : GraceEnded(r, w) =>
            /\ w \notin run[r].failed =>
                 /\ db[w].billing.status = "SUSPENDED"
                 /\ db[w].billing.suspendedAt = run[r].now
            /\ Cardinality(Attempts(r, w, "suspension")) = 1
            /\ \A k \in Attempts(r, w, "suspension") :
                 Cardinality(Sends(r, w, "suspension")) =
                    IF run[r].mail[k].outcome = "lookupThrew" THEN 0 ELSE 1

\* A run has finished that suspended a website and delivered its e-mail while
\* the save of the other website failed.
C1_Witness ==
    \E r \in Runners, w \in Websites, v \in Websites :
        /\ pc[r] = "done"
        /\ GraceEnded(r, w) /\ GraceEnded(r, v)
        /\ w \notin run[r].failed /\ v \in run[r].failed
        /\ db[w].billing.status = "SUSPENDED"
        /\ db[w].billing.suspendedAt = run[r].now
        /\ \E k \in Sends(r, w, "suspension") : run[r].mail[k].outcome = "delivered"

\* C2 as the spec states it: after a run every website that was ACTIVE with
\* dueAt < now is OVERDUE with no other field changed, and a suspended website
\* differs from before in status and suspendedAt only.
C2_AsStated ==
    \A r \in Runners : pc[r] = "done" =>
        \A w \in Websites :
            /\ DuePassed(r, w) =>
                 db[w].billing = [run[r].pre[w].billing EXCEPT !.status = "OVERDUE"]
            /\ GraceEnded(r, w) =>
                 \A f \in FrameFields : db[w].billing[f] = run[r].pre[w].billing[f]

\* C2 amended: a run writes nothing but status and, for a suspension,
\* suspendedAt.  After the run a website that was ACTIVE with dueAt < now and
\* whose save succeeded is OVERDUE with every other field as before; a website
\* that was PENDING with graceEndsAt < now has every field other than status
\* and suspendedAt as before; every other website, and every website whose
\* save failed, is stored as it was.
C2_RunWritesStatusOnly ==
    \A r \in Runners : pc[r] = "done" =>
        \A w \in Websites :
            /\ db[w].exists = run[r].pre[w].exists
            /\ db[w].status = run[r].pre[w].status
            /\ \A f \in FrameFields : db[w].billing[f] = run[r].pre[w].billing[f]
            /\ (DuePassed(r, w) /\ w \notin run[r].failed) =>
                  db[w].billing = [run[r].pre[w].billing EXCEPT !.status = "OVERDUE"]
            /\ (w \in run[r].failed \/ ~(DuePassed(r, w) \/ GraceEnded(r, w))) =>
                  db[w] = run[r].pre[w]

\* A run has finished that moved a paid website to OVERDUE and suspended the
\* other one.
C2_Witness ==
    \E r \in Runners, w \in Websites, v \in Websites :
        /\ pc[r] = "done"
        /\ DuePassed(r, w) /\ w \notin run[r].failed
        /\ db[w].billing.status = "OVERDUE"
        /\ Len(db[w].billing.paymentHistory) > 0
        /\ GraceEnded(r, v) /\ v \notin run[r].failed
        /\ db[v].billing.status = "SUSPENDED"

PaymentStep(w, code) ==
    /\ \E body \in PaymentBodies : RecordPayment(w, body)
    /\ response'.code = code

\* C4: a recordPayment that succeeds, whatever the status was, leaves the
\* record ACTIVE with lastPaymentAt the payment time and dueAt the next due
\* date counted from the payment time with the record's billing cycle, which is
\* later than the payment time.
C4_PaymentActivates ==
    [][\A w \in Websites : PaymentStep(w, 200) =>
          /\ db'[w].billing.status = "ACTIVE"
          /\ db'[w].billing.lastPaymentAt = clock
          /\ db'[w].billing.dueAt = calculateNextDueDate(clock, db[w].billing.billingCycle)
          /\ db'[w].billing.dueAt > clock]_vars

\* A payment has just been accepted, on the day the record was suspended, for
\* a record on the quarterly cycle.
C4_Witness ==
    /\ response = Respond("recordPayment", 200, "none")
    /\ db["w1"].billing.status = "ACTIVE"
    /\ db["w1"].billing.lastPaymentAt = clock
    /\ db["w1"].billing.suspendedAt = clock
    /\ db["w1"].billing.billingCycle = "quarterly"

\* C5: with runs and payments only, a status changes along PENDING -> ACTIVE,
\* OVERDUE -> ACTIVE and SUSPENDED -> ACTIVE by recordPayment and along
\* PENDING -> SUSPENDED and ACTIVE -> OVERDUE by the run, and along no other
\* edge: never OVERDUE -> SUSPENDED, never back to PENDING.
C5_StatusEdges ==
    [][\A w \in Websites :
          db'[w].billing.status # db[w].billing.status =>
             \/ /\ PaymentStep(w, 200)
                /\ db[w].billing.status \in {"PENDING", "OVERDUE", "SUSPENDED"}
                /\ db'[w].billing.status = "ACTIVE"
             \/ /\ \E r \in Runners : RunSave(r)
                /\ <<db[w].billing.status, db'[w].billing.status>> \in
                      {<<"PENDING", "SUSPENDED">>, <<"ACTIVE", "OVERDUE">>}]_vars

\* One website was suspended and then paid, the other was paid and is now
\* overdue.
C5_Witness ==
    \E w \in Websites, v \in Websites :
        /\ db[w].billing.status = "ACTIVE"
        /\ db[w].billing.suspendedAt # NoDate
        /\ db[w].billing.lastPaymentAt >= db[w].billing.suspendedAt
        /\ db[v].billing.status = "OVERDUE"
        /\ db[v].billing.lastPaymentAt # NoDate

\* C6 as the spec states it: once graceEndsAt is set, no step of any operation
\* changes it.
C6_AsStated ==
    [][\A w \in Websites :
          db[w].billing.graceEndsAt # NoDate =>
             db'[w].billing.graceEndsAt = db[w].billing.graceEndsAt]_vars

\* The old history is the start of the new one.
IsPrefix(old, new) ==
    /\ Len(old) <= Len(new)
    /\ \A k \in 1..Len(old) : new[k] = old[k]

\* C7: over every step of every operation the old paymentHistory is a prefix
\* of the new one, and a recordPayment that succeeds appends one entry with the
\* amount, the payment time, the method and the transaction id of the request.
C7_HistoryAppendOnly ==
    [][\A w \in Websites :
          /\ IsPrefix(db[w].billing.paymentHistory, db'[w].billing.paymentHistory)
          /\ \A body \in PaymentBodies :
               (RecordPayment(w, body) /\ response'.code = 200) =>
                  db'[w].billing.paymentHistory =
                     Append(db[w].billing.paymentHistory,
                            [amount |-> The(body.amount),
                             date |-> clock,
                             method |-> IF body.method = None
                                        THEN NoString ELSE The(body.method),
                             transactionId |-> IF body.transactionId = None
                                               THEN NoString
                                               ELSE The(body.transactionId)])]_vars

\* A second payment has just been recorded, later than the first.
C7_Witness ==
    /\ response = Respond("recordPayment", 200, "none")
    /\ Len(db["w1"].billing.paymentHistory) = 2
    /\ db["w1"].billing.paymentHistory[1].date < db["w1"].billing.paymentHistory[2].date
    /\ db["w1"].billing.paymentHistory[2].date = clock

\* The amount of the body is missing, zero or negative.
NotPositive(body) ==
    IF body.amount = None THEN TRUE ELSE ~(The(body.amount) > 0)

C9_AsStated ==
    [][\A w \in Websites :
          db[w].billing.status \in {"OVERDUE", "SUSPENDED"} =>
             /\ (\E r \in Runners : RunSave(r)) => db'[w] = db[w]
             /\ db'[w].billing.status # db[w].billing.status =>
                   \/ \E body \in PaymentBodies : RecordPayment(w, body)
                   \/ \E body \in BillingBodies : UpdateBilling(w, body)]_vars

\* Run r has saved a transition of website w.
Transitioned(r, w) ==
    \E k \in 1..Len(run[r].websites) :
        /\ run[r].websites[k].id = w
        /\ run[r].websites[k].modified # {}
        /\ k < run[r].i
        /\ w \notin run[r].failed

\* Run r has entered a notification for website w.
Notified(r, w) ==
    Attempts(r, w, "suspension") \cup Attempts(r, w, "overdue") # {}

\* C10 as the spec states it: of the runs that are in progress together, at
\* most one saves the transition of a record and at most one attempts the
\* notification for it.
C10_AsStated ==
    \A w \in Websites :
        /\ Cardinality({r \in Runners : Transitioned(r, w)}) <= 1
        /\ Cardinality({r \in Runners : Notified(r, w)}) <= 1

\* C11: a send that throws neither rolls the transition back nor counts as an
\* error of the record: the record goes on to its save with the new status,
\* errors and the failed set stay as they were, a save that then succeeds
\* stores SUSPENDED or OVERDUE, and the loop moves on to the next candidate.
C11_SendFailureIsHarmless ==
    [][\A r \in Runners :
          /\ (/\ RunProcess(r)
              /\ Len(run'[r].mail) > Len(run[r].mail)
              /\ run'[r].mail[Len(run'[r].mail)].outcome = "sendThrew") =>
                 /\ pc'[r] = "save"
                 /\ run'[r].errors = run[r].errors
                 /\ run'[r].failed = run[r].failed
                 /\ run'[r].websites[run[r].i].billing.status \in {"SUSPENDED", "OVERDUE"}
          /\ (/\ RunSave(r)
              /\ run'[r].errors = run[r].errors
              /\ run[r].mail[Len(run[r].mail)].outcome = "sendThrew") =>
                 /\ db'[run[r].websites[run[r].i].id].billing.status =
                       run[r].websites[run[r].i].billing.status
                 /\ db'[run[r].websites[run[r].i].id].billing.status \in {"SUSPENDED", "OVERDUE"}
                 /\ run'[r].i = run[r].i + 1
                 /\ pc'[r] = "loop"]_vars

\* A run has finished in which the send for the first candidate threw; that
\* candidate is stored SUSPENDED, no error is counted, and the run went on to
\* notify for the second candidate.
C11_Witness ==
    \E r \in Runners :
        /\ pc[r] = "done"
        /\ Len(run[r].mail) = 2
        /\ run[r].mail[1].outcome = "sendThrew"
        /\ run[r].mail[2].id # run[r].mail[1].id
        /\ db[run[r].mail[1].id].billing.status = "SUSPENDED"
        /\ db[run[r].mail[1].id].billing.suspendedAt = run[r].now
        /\ run[r].errors = 0

\* C12: when the save of a candidate rejects, the run counts one error for it
\* and leaves its stored record as it was, and every other candidate still has
\* its transition stored.
C12_FailureIsolated ==
    \A r \in Runners : pc[r] = "done" =>
        /\ run[r].errors = Cardinality(run[r].failed)
        /\ \A w \in run[r].failed : db[w] = run[r].pre[w]
        /\ \A w \in Websites \ run[r].failed :
              /\ GraceEnded(r, w) =>
                    db[w].billing = [run[r].pre[w].billing EXCEPT !.status = "SUSPENDED",
                                                                  !.suspendedAt = run[r].now]
              /\ DuePassed(r, w) => db[w].billing.status = "OVERDUE"

\* A run has finished in which the save of the first candidate rejected and the
\* second candidate was suspended all the same.
C12_Witness ==
    \E r \in Runners :
        /\ pc[r] = "done"
        /\ run[r].failed = {"w1"}
        /\ run[r].errors = 1
        /\ GraceEnded(r, "w1") /\ GraceEnded(r, "w2")
        /\ db["w1"].billing.status = "PENDING"
        /\ db["w2"].billing.status = "SUSPENDED"

\* C13: a run throws to its caller only out of the candidate query, and then
\* it has written no record and attempted no notification; a save that rejects
\* is counted and the loop goes on; the manual trigger answers 500 exactly when
\* the run threw.
C13_ThrowsOnlyOnFetch ==
    [][\A r \in Runners :
          /\ (pc'[r] = "threw" /\ pc[r] # "threw") =>
                /\ pc[r] = "idle"
                /\ db' = db
                /\ run'[r].websites = <<>>
                /\ run'[r].mail = <<>>
          /\ (pc[r] = "idle" /\ pc'[r] # "idle") => pc'[r] \in {"loop", "threw"}
          /\ (pc[r] = "threw" /\ pc'[r] # "threw") => RunReturn(r)
          /\ (RunSave(r) /\ run'[r].errors > run[r].errors) => pc'[r] = "loop"
          /\ (RunReturn(r) /\ r = "manual") =>
                /\ response'.op = "billingCheck"
                /\ response'.code = 500 <=> pc[r] = "threw"
                /\ response'.code = 200 <=> pc[r] = "done"]_vars

\* The manual trigger has answered 500 while a website whose grace period is
\* over is still stored PENDING.
C13_Witness ==
    /\ response = Respond("billingCheck", 500, "none")
    /\ IsCandidate(db["w1"], clock)
    /\ db["w1"].billing.status = "PENDING"
    /\ pc["manual"] = "idle"

\* C14 as the spec states it: at the end of a run pendingToSuspended and
\* activeToOverdue are the numbers of transitions the run stored, and errors is
\* the number of candidates that failed; a record whose save rejected is
\* counted in errors alone.
C14_AsStated ==
    \A r \in Runners : pc[r] = "done" =>
        /\ run[r].pendingToSuspended =
              Cardinality({w \in Websites : GraceEnded(r, w) /\ Transitioned(r, w)})
        /\ run[r].activeToOverdue =
              Cardinality({w \in Websites : DuePassed(r, w) /\ Transitioned(r, w)})
        /\ run[r].errors = Cardinality(run[r].failed)

\* C18 as the spec states it: every notification a run has attempted is for a
\* record whose save has already succeeded in that run.
C18_AsStated ==
    \A r \in Runners :
        \A k \in 1..Len(run[r].mail) : Transitioned(r, run[r].mail[k].id)

\* Website w has been paid since run r fetched it and is stored ACTIVE with a
\* due date that has not passed.
PaidSinceFetch(r, w) ==
    /\ Len(db[w].billing.paymentHistory) > Len(run[r].pre[w].billing.paymentHistory)
    /\ db[w].billing.status = "ACTIVE"
    /\ db[w].billing.dueAt >= run[r].now

\* C19 as the spec states it: when the candidate a run is about to process or
\* save has been paid since the fetch, the run skips it: it writes nothing and
\* attempts no notification.
C19_AsStated ==
    [][\A r \in Runners :
          (/\ pc[r] \in {"loop", "save"}
           /\ run[r].i <= Len(run[r].websites)
           /\ PaidSinceFetch(r, run[r].websites[run[r].i].id)
           /\ RunProcess(r) \/ RunSave(r)) =>
              /\ db' = db
              /\ run'[r].mail = run[r].mail]_vars

\* C20: a run does not select, change or notify a website that is PENDING with
\* graceEndsAt >= now or ACTIVE with dueAt >= now, nor any other website that is
\* not PENDING with graceEndsAt < now or ACTIVE with dueAt < now.
C20_NoPrematureTransition ==
    \A r \in Runners : pc[r] \in {"loop", "save", "done"} =>
        \A w \in Websites : (~GraceEnded(r, w) /\ ~DuePassed(r, w)) =>
            /\ db[w] = run[r].pre[w]
            /\ \A k \in 1..Len(run[r].websites) : run[r].websites[k].id # w
            /\ \A k \in 1..Len(run[r].mail) : run[r].mail[k].id # w

\* A run has finished on the very day a paid website falls due: that website
\* is as before, the unpaid one was suspended.
C20_Witness ==
    \E r \in Runners, w \in Websites, v \in Websites :
        /\ pc[r] = "done"
        /\ db[w].billing.status = "ACTIVE"
        /\ db[w].billing.dueAt = run[r].now
        /\ db[w] = run[r].pre[w]
        /\ GraceEnded(r, v)
        /\ db[v].billing.status = "SUSPENDED"

\* C15 as the spec states it: the billing stored when a website becomes
\* DEPLOYED for the first time is what initializeBilling returns: status
\* PENDING, the plan, price and cycle of the call (no plan, no price, monthly
\* when left out), activatedAt = now, graceEndsAt five days after now and dueAt
\* that same day; the fields initializeBilling does not return stay as stored.
C15_AsStated ==
    [][\A w \in Websites :
          (/\ db[w].billing.activatedAt = NoDate
           /\ db'[w].status = "DEPLOYED"
           /\ db[w].status # "DEPLOYED") =>
              /\ UpdateWebsiteStatus(w, "DEPLOYED") =>
                    db'[w].billing =
                       [db[w].billing EXCEPT !.status = "PENDING",
                                             !.plan = NoPlan,
                                             !.price = NoPrice,
                                             !.billingCycle = "monthly",
                                             !.activatedAt = clock,
                                             !.graceEndsAt = clock + GraceDays,
                                             !.dueAt = clock + GraceDays]
              /\ \A updateData \in WebsiteBodies :
                    UpdateWebsite(w, updateData) =>
                       db'[w].billing =
                          [db[w].billing EXCEPT
                              !.status = "PENDING",
                              !.plan = IF updateData.billingPlan = None THEN NoPlan
                                       ELSE toLowerCaseTrim(The(updateData.billingPlan)),
                              !.price = IF updateData.billingPrice = None THEN NoPrice
                                        ELSE The(updateData.billingPrice),
                              !.billingCycle = IF updateData.billingCycle = None
                                               THEN "monthly"
                                               ELSE The(updateData.billingCycle),
                              !.activatedAt = clock,
                              !.graceEndsAt = clock + GraceDays,
                              !.dueAt = clock + GraceDays]]_vars

\* C16: calculateNextDueDate(from, cycle) is addMonths(from, 1) for monthly,
\* addMonths(from, 3) for quarterly, addMonths(from, 12) for yearly, and
\* addMonths(from, 1) for any other cycle.
C16_NextDueDatePerCycle ==
    call.fn = "calculateNextDueDate" =>
       /\ call.arg = "monthly" => call.result = addMonths(call.date, 1)
       /\ call.arg = "quarterly" => call.result = addMonths(call.date, 3)
       /\ call.arg = "yearly" => call.result = addMonths(call.date, 12)
       /\ call.arg \notin {"monthly", "quarterly", "yearly"} =>
             call.result = addMonths(call.date, 1)
       /\ call.result > call.date

\* calculateNextDueDate has been called for 31 January with a cycle outside
\* the type and has returned the day one month on.
C16_Witness ==
    /\ call.fn = "calculateNextDueDate"
    /\ call.arg = "weekly"
    /\ getMonth(call.date) = 0 /\ getDate(call.date) = 31
    /\ call.result = addMonths(call.date, 1)

\* C17: for a website the guard has read, checkBillingStatus answers 402 and
\* does not call next() exactly when the billing status is SUSPENDED; for
\* PENDING, ACTIVE and OVERDUE it calls next(), for OVERDUE and only for OVERDUE
\* with the header X-Billing-Status; strictBillingCheck answers 402 and does not
\* call next() exactly when the status is SUSPENDED or OVERDUE.
C17_GuardBlocks ==
    [][\A w \in Websites : db[w].exists =>
          /\ (CheckBillingStatus(w) /\ response'.next # "error") =>
                /\ (response'.code = 402 /\ response'.next = "no") <=>
                      db[w].billing.status = "SUSPENDED"
                /\ (response'.code = 0 /\ response'.next = "called") <=>
                      db[w].billing.status \in {"PENDING", "ACTIVE", "OVERDUE"}
                /\ response'.header = "OVERDUE" <=> db[w].billing.status = "OVERDUE"
          /\ (StrictBillingCheck(w) /\ response'.next # "error") =>
                /\ (response'.code = 402 /\ response'.next = "no") <=>
                      db[w].billing.status \in {"SUSPENDED", "OVERDUE"}
                /\ (response'.code = 0 /\ response'.next = "called") <=>
                      db[w].billing.status \in {"PENDING", "ACTIVE"}]_vars

\* checkBillingStatus has let a request through for a website that is OVERDUE,
\* with the warning header.
C17_Witness ==
    /\ response = GuardAnswer("checkBillingStatus", 0, "called", "OVERDUE")
    /\ db["w1"].billing.status = "OVERDUE"

\* C21: with runs scheduled again and again and a store that does not reject
\* for ever, a website that is PENDING with its grace period over is at some
\* time stored SUSPENDED and a website that is ACTIVE with its due date passed
\* is at some time stored OVERDUE, whatever runs were shut down between
\* records, failed to fetch or failed to save before.
C21_EventuallyReconciled ==
    \A w \in Websites :
        /\ (/\ db[w].billing.status = "PENDING"
            /\ db[w].billing.graceEndsAt # NoDate
            /\ db[w].billing.graceEndsAt < clock)
              ~> (db[w].billing.status = "SUSPENDED")
        /\ (/\ db[w].billing.status = "ACTIVE"
            /\ db[w].billing.dueAt # NoDate
            /\ db[w].billing.dueAt < clock)
              ~> (db[w].billing.status = "OVERDUE")

\* The second of two runs on the same day has finished: the first failed to
\* save w1, the second has stored it SUSPENDED, and w2 is stored OVERDUE.
C21_Witness ==
    \E r \in Runners :
        /\ pc[r] = "done"
        /\ run[r].follows = "faulty"
        /\ GraceEnded(r, "w1")
        /\ db["w1"].billing.status = "SUSPENDED"
        /\ db["w2"].billing.status = "OVERDUE"

\* C22: billing is initialised only on entry to DEPLOYED. An updateWebsite or
\* updateWebsiteStatus call that sets DEPLOYED on a website that is already
\* DEPLOYED, or that sets any other status, leaves the whole billing record as
\* it was and sends no activation e-mail.
C22_InitOnlyOnEntry ==
    [][\A w \in Websites :
          (\/ \E status \in StatusInputs :
                 /\ Quiet /\ response'.op = "updateWebsiteStatus"
                 /\ (status # "DEPLOYED" \/ db[w].status = "DEPLOYED")
                 /\ UpdateWebsiteStatus(w, status)
           \/ \E updateData \in WebsiteBodies :
                 /\ Quiet /\ response'.op = "updateWebsite"
                 /\ (The(updateData.status) # "DEPLOYED" \/ db[w].status = "DEPLOYED")
                 /\ UpdateWebsite(w, updateData))
             => /\ db'[w].billing = db[w].billing
                /\ response'.email = "none"]_vars

\* PATCH /websites/:id/status has set DEPLOYED on a website that was DEPLOYED
\* and SUSPENDED since a run: it is still SUSPENDED, with the grace period of
\* its first deployment.
C22_Witness ==
    /\ response = Respond("updateWebsiteStatus", 200, "none")
    /\ db["w1"].status = "DEPLOYED"
    /\ db["w1"].billing.status = "SUSPENDED"
    /\ db["w1"].billing.suspendedAt # NoDate
    /\ db["w1"].billing.graceEndsAt < clock

\* C23: the enum domains hold in every stored state. Whatever updateBilling,
\* recordPayment, website status updates and runs came before, billing.status
\* is one of PENDING, ACTIVE, OVERDUE and SUSPENDED, billing.billingCycle is one
\* of monthly, quarterly and yearly and billing.price is unset or at least 0;
\* and an updateBilling call whose status is outside the enum leaves the stored
\* status as it was.
C23_EnumDomains ==
    /\ [](\A w \in Websites :
            /\ db[w].billing.status \in BillingStatus
            /\ db[w].billing.billingCycle \in BillingCycles
            /\ (db[w].billing.price = NoPrice \/ db[w].billing.price >= 0))
    /\ [][\A w \in Websites : \A body \in BillingBodies :
            (/\ Quiet /\ response'.op = "updateBilling"
             /\ body.status # None
             /\ The(body.status) \notin BillingStatus
             /\ UpdateBilling(w, body))
               => db'[w].billing.status = db[w].billing.status]_vars

\* PATCH /websites/:id/billing has been refused on a website that an earlier
\* call priced at 20 on a quarterly cycle, that was paid for and that a run
\* has made OVERDUE.
C23_Witness ==
    /\ response = Respond("updateBilling", 500, "none")
    /\ db["w1"].billing.status = "OVERDUE"
    /\ db["w1"].billing.billingCycle = "quarterly"
    /\ db["w1"].billing.price = 20
    /\ db["w1"].billing.lastPaymentAt # NoDate

\* The months of a billing cycle.
MonthsOf(cycle) ==
    CASE cycle = "quarterly" -> 3
      [] cycle = "yearly" -> 12
      [] OTHER -> 1

\* The day-overflow rule in words: n is added to the month and the day of the
\* month, with the days to add, is kept; when the target month has no such
\* day, the days in excess of its length are counted into the month that
\* follows it.
RolledDate(date, n, days) ==
    LET y == getFullYear(date) + ((getMonth(date) + n) \div 12)
        m == (getMonth(date) + n) % 12
        first == DaysBeforeYear(y) + DaysBeforeMonth(y, m)
        len == DaysInMonth(y, m)
        d == getDate(date) + days
    IN IF d <= len THEN first + (d - 1)
       ELSE (first + len) + ((d - len) - 1)

\* calculateNextDueDate of 31 January 2024 on the monthly cycle is 2 March 2024.
LastOfJanuary ==
    (/\ call.fn = "calculateNextDueDate"
     /\ call.arg = "monthly"
     /\ getFullYear(call.date) = 2024
     /\ getMonth(call.date) = 0
     /\ getDate(call.date) = 31)
        => (/\ getFullYear(call.result) = 2024
            /\ getMonth(call.result) = 2
            /\ getDate(call.result) = 2)

\* C24: addMonths adds n to the month, keeps the day of the month and counts
\* the days the target month lacks into the following month, so
\* calculateNextDueDate(2024-01-31, monthly) is 2024-03-02; the due date of a
\* payment (calculateNextDueDate) and the first due date (initializeBilling,
\* five days on) are both computed under this one overflow rule.
C24_OneOverflowRule ==
    /\ call.fn = "addMonths" => call.result = RolledDate(call.date, call.arg, 0)
    /\ call.fn = "calculateNextDueDate"
          => call.result = RolledDate(call.date, MonthsOf(call.arg), 0)
    /\ call.fn = "initializeBilling"
          => call.result = RolledDate(call.date, 0, GraceDays)
    /\ LastOfJanuary

\* calculateNextDueDate has been called on 31 January 2024 for the monthly
\* cycle and has returned 2 March 2024.
C24_Witness ==
    /\ call.fn = "calculateNextDueDate"
    /\ call.arg = "monthly"
    /\ call.date = MakeDate(2024, 0, 31)
    /\ call.result = MakeDate(2024, 2, 2)

\* C25: getDaysRemaining(dueDate) is the ceiling of dueDate - now in days of
\* 86,400,000 ms: the smallest integer d with d days >= dueDate - now, which
\* is 0 or negative when dueDate is not after now.
C25_CeilingOfDays ==
    call.fn = "getDaysRemaining" =>
        LET diff == call.date - call.arg
            d == call.result
        IN /\ d * 86400000 >= diff
           /\ (d - 1) * 86400000 < diff
           /\ (diff <= 0 => d <= 0)
           /\ (diff > 0 => d >= 1)

\* getDaysRemaining has been called one millisecond after midnight for a due
\* date at midnight two days later and one a day and a millisecond ago: it
\* has answered 2 and -1.
C25_Witness ==
    /\ call.fn = "getDaysRemaining"
    /\ call.arg = 1
    /\ \/ call.date = 2 * 86400000 /\ call.result = 2
       \/ call.date = 0 - 86400000 /\ call.result = -1

\* The records run r has taken through the body of its loop.
Visited(r) ==
    IF pc[r] = "save" THEN run[r].i ELSE run[r].i - 1

\* C26: within one run each candidate undergoes at most one status change and
\* at most one notification attempt. No website is twice in the list of the
\* run, a record the PENDING branch has suspended is not taken by the ACTIVE
\* branch after it, and so the run counts no more transitions than it has
\* visited records.
C26_OnceARun ==
    \A r \in Runners : pc[r] # "idle" =>
        /\ \A j, k \in 1..Len(run[r].websites) :
              run[r].websites[j].id = run[r].websites[k].id => j = k
        /\ \A w \in Websites :
              Cardinality(Attempts(r, w, "suspension") \cup Attempts(r, w, "overdue")) <= 1
        /\ \A k \in 1..Len(run[r].websites) :
              LET was == run[r].pre[run[r].websites[k].id].billing.status
                  is == run[r].websites[k].billing.status
              IN \/ is = was
                 \/ was = "PENDING" /\ is = "SUSPENDED"
                 \/ was = "ACTIVE" /\ is = "OVERDUE"
        /\ run[r].pendingToSuspended + run[r].activeToOverdue <= Visited(r)

\* A run has finished that suspended w1, whose grace period and first due
\* date were both over, and made w2 OVERDUE: one notification each.
C26_Witness ==
    \E r \in Runners :
        /\ pc[r] = "done"
        /\ GraceEnded(r, "w1")
        /\ run[r].pre["w1"].billing.dueAt < run[r].now
        /\ DuePassed(r, "w2")
        /\ Cardinality(Attempts(r, "w1", "suspension")) = 1
        /\ Attempts(r, "w1", "overdue") = {}
        /\ Cardinality(Attempts(r, "w2", "overdue")) = 1
        /\ run[r].pendingToSuspended = 1
        /\ run[r].activeToOverdue = 1

\* The billing of website w had never been initialised when run r fetched:
\* it was as approveRequest created it, with no deadline of either kind.
Uninitialised(r, w) ==
    /\ run[r].pre[w].exists
    /\ run[r].pre[w].billing.activatedAt = NoDate
    /\ run[r].pre[w].billing.graceEndsAt = NoDate
    /\ run[r].pre[w].billing.dueAt = NoDate

\* C27: a website whose billing has never been initialised, neither deployed
\* nor paid for, is not among the candidates of any run, however late the run,
\* and no run changes its record or enters a notification for it.
C27_UninitialisedIgnored ==
    \A r \in Runners : pc[r] # "idle" =>
        \A w \in Websites : Uninitialised(r, w) =>
            /\ \A k \in 1..Len(run[r].websites) : run[r].websites[k].id # w
            /\ ~Notified(r, w)
            /\ db[w] = run[r].pre[w]

\* A run long after the approval of w1, which was never deployed and never
\* paid for, has finished with no candidate: w1 is as it was created.
C27_Witness ==
    \E r \in Runners :
        /\ pc[r] = "done"
        /\ Uninitialised(r, "w1")
        /\ run[r].now > addDays(StartDay, GraceDays) + 1
        /\ run[r].websites = <<>>
        /\ db["w1"].status = "CREATED"
        /\ db["w1"].billing.status = "PENDING"
        /\ db["w1"].billing.billingCycle = "monthly"

\* C28 as the spec states it: in every state a billing record whose status is
\* SUSPENDED has suspendedAt set, whatever runs, payments, updateBilling calls
\* (a direct status override among them) and website status updates came
\* before.
C28_AsStated ==
    \A w \in Websites :
        db[w].billing.status = "SUSPENDED" => db[w].billing.suspendedAt # NoDate

\* The billing fields PATCH /websites/:id/billing has no parameter for.
DatesAndHistory ==
    {"activatedAt", "dueAt", "graceEndsAt", "lastPaymentAt", "suspendedAt", "paymentHistory"}

\* C29: updateBilling changes only the fields supplied among plan, price,
\* billingCycle and status. It leaves activatedAt, dueAt, graceEndsAt,
\* lastPaymentAt, suspendedAt and paymentHistory as they were, a new
\* billingCycle included, leaves the website status and the other websites
\* alone and sends no notification.
C29_BillingEditFrame ==
    [][\A w \in Websites : \A body \in BillingBodies :
          (/\ Quiet /\ response'.op = "updateBilling"
           /\ UpdateBilling(w, body))
             => /\ \A f \in DatesAndHistory : db'[w].billing[f] = db[w].billing[f]
                /\ body.plan = None => db'[w].billing.plan = db[w].billing.plan
                /\ body.price = None => db'[w].billing.price = db[w].billing.price
                /\ body.billingCycle = None
                      => db'[w].billing.billingCycle = db[w].billing.billingCycle
                /\ body.status = None => db'[w].billing.status = db[w].billing.status
                /\ db'[w].status = db[w].status
                /\ \A v \in Websites \ {w} : db'[v] = db[v]
                /\ response'.email = "none"]_vars

\* PATCH /websites/:id/billing has been accepted on a website that was paid
\* for on the monthly cycle and is now on the quarterly one: its due date is
\* still a month after the payment.
C29_Witness ==
    /\ response = Respond("updateBilling", 200, "none")
    /\ db["w1"].billing.billingCycle = "quarterly"
    /\ db["w1"].billing.status = "ACTIVE"
    /\ db["w1"].billing.lastPaymentAt # NoDate
    /\ db["w1"].billing.dueAt = calculateNextDueDate(db["w1"].billing.lastPaymentAt, "monthly")

\* C30: for each key the limiter hands at most maxRequests requests to the
\* next handler between the request that opens a window and the window's
\* resetTime; a further request in the window is answered 429 and leaves
\* resetTime where it was; the first request after resetTime has passed is
\* handed on and opens a new window with count 1; and a request without an
\* authenticated user is always handed on.
C30_RateLimited ==
    /\ [](\A key \in Keys : store[key].passed <= SupportMaxRequests)
    /\ [][\A userId \in UserInputs : \A path \in Paths :
            (/\ response'.op = "rateLimiter"
             /\ supportRequestLimiter(userId, path))
               => IF userId = NoString
                  THEN response'.next = "called" /\ store' = store
                  ELSE LET old == store[KeyOf(userId, path)]
                           new == store'[KeyOf(userId, path)]
                           inWindow == old # NoEntry /\ old.resetTime >= DateNow
                       IN /\ inWindow /\ old.passed >= SupportMaxRequests
                             => /\ response'.code = 429
                                /\ response'.next = "none"
                                /\ new.resetTime = old.resetTime
                          /\ response'.code = 429
                             => inWindow /\ old.passed = SupportMaxRequests
                          /\ inWindow => new.resetTime = old.resetTime
                          /\ ~inWindow
                             => /\ response'.next = "called"
                                /\ new.count = 1
                                /\ new.resetTime = DateNow + SupportWindowMs]_vars

\* u1 is in its second window, opened after the first had passed, at the very
\* millisecond of its resetTime: five of its requests were handed on and the
\* last of two more has been answered 429.
C30_Witness ==
    /\ response.op = "rateLimiter"
    /\ response.code = 429
    /\ store["u1:/"].passed = SupportMaxRequests
    /\ store["u1:/"].count = SupportMaxRequests + 2
    /\ store["u1:/"].resetTime = DateNow
    /\ store["u1:/"].resetTime > SupportWindowMs
    /\ response.retryAfter = store["u1:/"].resetTime

====
